---- MODULE Spec2Model ----
(***************************************************************************)
(* A model of src/web_scraping.py: the two-stage scraper of a paginated    *)
(* book catalogue.  collect_book_urls walks the listing pages and gathers  *)
(* the detail-page references, main then calls parse_book_page once per    *)
(* reference and accumulates the records.                                  *)
(*                                                                         *)
(* Strings whose characters matter (hrefs, raw table values) are sequences *)
(* of one-character strings; two multi-character words of the availability *)
(* text, "In stock" and " available", are single elements of the sequence. *)
(* Opaque texts (titles, breadcrumb segments, table keys) are TLA+ strings.*)
(* A Python exception that leaves a function is a "raise" outcome; in the  *)
(* pipeline it ends the run in a *_raised state, since nothing in the      *)
(* program catches it.                                                     *)
(***************************************************************************)
EXTENDS Integers, Sequences, FiniteSets

VARIABLES
    pc,          \* position of main: "collect", "parse", "done", "collect_raised", "parse_raised",
                 \* or "idle" (the pipeline is not the subject of the specification)
    num_pages,   \* argument of collect_book_urls
    page_num,    \* loop variable of collect_book_urls
    pages,       \* what get_page returned for the listing pages fetched so far
    book_urls,   \* the list collect_book_urls accumulates and main iterates
    idx,         \* position of main's loop in book_urls (1-based)
    books_data,  \* the list main accumulates
    events,      \* outbound requests and polite_sleep calls, in program order
    exc,         \* the exception that ended the run, "" if none
    fpc,         \* position of the single-function specifications
    page,        \* SpecParse: the detail page get_page returns (fetch_ok says whether it does)
    fetch_ok,    \* SpecParse: whether the fetch of the detail page succeeds
    outcome,     \* SpecParse: what parse_book_page did
    raw,         \* SpecPrice: the raw string handed to parse_price
    price_out    \* SpecPrice: what parse_price did

vars == <<pc, num_pages, page_num, pages, book_urls, idx, books_data, events, exc,
          fpc, page, fetch_ok, outcome, raw, price_out>>

pipeVars == <<pc, num_pages, page_num, pages, book_urls, idx, books_data, events, exc>>
parseVars == <<page, fetch_ok, outcome>>
priceVars == <<raw, price_out>>

(***************************************************************************)
(* Bounds                                                                  *)
(***************************************************************************)
MaxPages == 2         \* listing pages visited (num_pages ranges over 1..MaxPages)
MaxArticles == 2      \* article.product_pod elements on one listing page

(***************************************************************************)
(* Strings                                                                 *)
(***************************************************************************)
RECURSIVE Concat(_)
Concat(ss) == IF ss = <<>> THEN <<>> ELSE Head(ss) \o Concat(Tail(ss))

SeqsUpTo(S, n) == UNION {[1..k -> S] : k \in 0..n}

CATALOGUE_URL == <<"https://books.toscrape.com/catalogue/">>

UpDir == <<".", ".", "/">>

\* str.replace("../", ""): every non-overlapping occurrence, scanning left to right
RECURSIVE ReplaceUpDirAll(_)
ReplaceUpDirAll(s) ==
    IF Len(s) < Len(UpDir) THEN s
    ELSE IF SubSeq(s, 1, Len(UpDir)) = UpDir
         THEN ReplaceUpDirAll(SubSeq(s, Len(UpDir) + 1, Len(s)))
         ELSE <<Head(s)>> \o ReplaceUpDirAll(Tail(s))

(***************************************************************************)
(* Listing pages                                                           *)
(***************************************************************************)
Hrefs == { <<"a">>, <<".", ".", "/", "b">> }

\* an article.product_pod element: does it hold an h3, does the h3 hold an a,
\* does the a carry an href
NoH3 == [h3 |-> FALSE, a |-> FALSE, has_href |-> FALSE, href |-> <<>>]
NoAnchor == [h3 |-> TRUE, a |-> FALSE, has_href |-> FALSE, href |-> <<>>]
NoHref == [h3 |-> TRUE, a |-> TRUE, has_href |-> FALSE, href |-> <<>>]
Link(h) == [h3 |-> TRUE, a |-> TRUE, has_href |-> TRUE, href |-> h]

Articles == {NoH3, NoAnchor, NoHref} \cup {Link(h) : h \in Hrefs}

\* what get_page returns for a listing page: None (ok = FALSE) or a soup
FailedPage == [ok |-> FALSE, articles |-> <<>>]
Soup(as) == [ok |-> TRUE, articles |-> as]
ListingPages == {Soup(as) : as \in SeqsUpTo(Articles, MaxArticles)}

(***************************************************************************)
(* events                                                                  *)
(***************************************************************************)
ListingReq(n, ok) == [kind |-> "listing", page |-> n, url |-> <<>>, ok |-> ok]
DetailReq(u, ok) == [kind |-> "detail", page |-> 0, url |-> u, ok |-> ok]
Sleep == [kind |-> "sleep", page |-> 0, url |-> <<>>, ok |-> TRUE]

IsReq(e) == e.kind \in {"listing", "detail"}

polite_sleep(ev) == Append(ev, Sleep)

(***************************************************************************)
(* collect_book_urls: the inner loop over the articles of one page         *)
(***************************************************************************)
NoExc == ""

full_url(href) == CATALOGUE_URL \o ReplaceUpDirAll(href)

\* the inner loop, were it to leave out a reference the list already holds
RECURSIVE ArticleLoopDedup(_, _)
ArticleLoopDedup(as, acc) ==
    IF as = <<>> THEN [exc |-> NoExc, urls |-> acc]
    ELSE LET article == Head(as) IN
         IF ~article.h3 THEN [exc |-> "AttributeError", urls |-> acc]
         ELSE IF ~article.a THEN ArticleLoopDedup(Tail(as), acc)
         ELSE IF ~article.has_href THEN [exc |-> "KeyError", urls |-> acc]
         ELSE IF \E i \in 1..Len(acc) : acc[i] = full_url(article.href)
              THEN ArticleLoopDedup(Tail(as), acc)
              ELSE ArticleLoopDedup(Tail(as), Append(acc, full_url(article.href)))

\* the state of the inner loop after the articles as, started with the list acc
RECURSIVE ArticleLoop(_, _)
ArticleLoop(as, acc) ==
    IF as = <<>> THEN [exc |-> NoExc, urls |-> acc]
    ELSE LET article == Head(as) IN
         IF ~article.h3 THEN [exc |-> "AttributeError", urls |-> acc]
         ELSE IF ~article.a THEN ArticleLoop(Tail(as), acc)
         ELSE IF ~article.has_href THEN [exc |-> "KeyError", urls |-> acc]
         ELSE ArticleLoop(Tail(as), Append(acc, full_url(article.href)))

(***************************************************************************)
(* Numbers read from text                                                  *)
(***************************************************************************)
DigitChars == <<"0", "1", "2", "3", "4", "5", "6", "7", "8", "9">>

IsDigit(c) == \E i \in 1..Len(DigitChars) : DigitChars[i] = c

DigitVal(c) == (CHOOSE i \in 1..Len(DigitChars) : DigitChars[i] = c) - 1

AllDigits(s) == \A i \in 1..Len(s) : IsDigit(s[i])

\* the value of a run of decimal digits
RECURSIVE DecVal(_)
DecVal(s) ==
    IF s = <<>> THEN 0
    ELSE DecVal(SubSeq(s, 1, Len(s) - 1)) * Len(DigitChars) + DigitVal(s[Len(s)])

RECURSIVE Pow10(_)
Pow10(n) == IF n = 0 THEN 1 ELSE Len(DigitChars) * Pow10(n - 1)

\* int(s) for a str s: an optional sign and at least one digit, ValueError otherwise
int(s) ==
    IF s # <<>> /\ AllDigits(s) THEN [exc |-> NoExc, val |-> DecVal(s)]
    ELSE IF Len(s) > 1 /\ s[1] \in {"-", "+"} /\ AllDigits(Tail(s))
         THEN [exc |-> NoExc,
               val |-> IF s[1] = "-" THEN 0 - DecVal(Tail(s)) ELSE DecVal(Tail(s))]
         ELSE [exc |-> "ValueError", val |-> 0]

\* a decimal number is the fraction num / den
Dec(n, d) == [num |-> n, den |-> d]
Zero == Dec(0, 1)
DecEq(x, y) == x.num * y.den = y.num * x.den

\* float(s) for a run s of digits and points: at most one point and at least one
\* digit, ValueError otherwise
float(s) ==
    LET points == {i \in 1..Len(s) : s[i] = "."}
        digits == SelectSeq(s, IsDigit)
    IN  IF Cardinality(points) > 1 \/ digits = <<>>
        THEN [exc |-> "ValueError", val |-> Zero]
        ELSE LET after == IF points = {} THEN 0
                          ELSE Len(s) - (CHOOSE i \in points : TRUE)
             IN  [exc |-> NoExc, val |-> Dec(DecVal(digits), Pow10(after))]

IsPriceChar(c) == IsDigit(c) \/ c = "."

\* the longest prefix of s made of characters of the class
RECURSIVE TakeWhilePrice(_)
TakeWhilePrice(s) ==
    IF s = <<>> \/ ~IsPriceChar(Head(s)) THEN <<>>
    ELSE <<Head(s)>> \o TakeWhilePrice(Tail(s))

\* re.search(r"[\d.]+", s): the leftmost maximal run, found = FALSE when there is none
RECURSIVE SearchPriceRun(_)
SearchPriceRun(s) ==
    IF s = <<>> THEN [found |-> FALSE, run |-> <<>>]
    ELSE IF IsPriceChar(Head(s)) THEN [found |-> TRUE, run |-> TakeWhilePrice(s)]
    ELSE SearchPriceRun(Tail(s))

parse_price(r) ==
    LET match == SearchPriceRun(r)
    IN  IF match.found THEN float(match.run) ELSE [exc |-> NoExc, val |-> Zero]

(***************************************************************************)
(* Detail pages                                                            *)
(***************************************************************************)
MaxCrumbs == 4        \* li elements of the breadcrumb
MaxClassTokens == 3   \* class tokens of the rating marker
MaxExtraRows == 1     \* attribute-table rows that follow the seven regular ones

RATING_MAP == [t \in {"One", "Two", "Three", "Four", "Five"} |->
                 CASE t = "One" -> 1 [] t = "Two" -> 2 [] t = "Three" -> 3
                   [] t = "Four" -> 4 [] t = "Five" -> 5]

InStock == "In stock"
Available == " available"

\* the columns of a record
DefaultBook ==
    [title |-> "", category |-> "", rating |-> 0, price |-> Zero,
     price_excl_tax |-> Zero, price_incl_tax |-> Zero, tax |-> Zero,
     availability |-> "Out of stock", num_available |-> 0, num_reviews |-> 0,
     upc |-> <<>>, product_type |-> <<>>, description |-> "", book_url |-> <<>>]

\* dict.get over the rows of the table: a later row with the same header replaces
\* an earlier one
RECURSIVE InfoGet(_, _, _)
InfoGet(rows, key, default) ==
    IF rows = <<>> THEN default
    ELSE IF rows[Len(rows)].th = key THEN rows[Len(rows)].td
    ELSE InfoGet(SubSeq(rows, 1, Len(rows) - 1), key, default)

HasKey(rows, key) == \E i \in 1..Len(rows) : rows[i].th = key

\* the rating, were it read from the last class token instead of the first
RatingOfLastToken(star) ==
    IF star.present
    THEN LET rating_class == SelectSeq(star.class, LAMBDA c : c # "star-rating")
         IN  IF rating_class # <<>>
             THEN IF rating_class[Len(rating_class)] \in DOMAIN RATING_MAP
                  THEN RATING_MAP[rating_class[Len(rating_class)]] ELSE 0
             ELSE 0
    ELSE 0

\* rating: the first class token that is not "star-rating", looked up in RATING_MAP
RatingOf(star) ==
    IF star.present
    THEN LET rating_class == SelectSeq(star.class, LAMBDA c : c # "star-rating")
         IN  IF rating_class # <<>>
             THEN IF rating_class[1] \in DOMAIN RATING_MAP
                  THEN RATING_MAP[rating_class[1]] ELSE 0
             ELSE 0
    ELSE 0

CategoryOf(breadcrumb) ==
    IF breadcrumb.present
    THEN IF Len(breadcrumb.crumbs) > 2 THEN breadcrumb.crumbs[3] ELSE ""
    ELSE ""

\* re.search(r"\((\d+) available\)", s): the digits of the leftmost match
RECURSIVE TakeDigits(_)
TakeDigits(s) ==
    IF s = <<>> \/ ~IsDigit(Head(s)) THEN <<>>
    ELSE <<Head(s)>> \o TakeDigits(Tail(s))

RECURSIVE SearchAvailable(_)
SearchAvailable(s) ==
    IF s = <<>> THEN [found |-> FALSE, group |-> <<>>]
    ELSE LET digits == TakeDigits(Tail(s))
             rest == SubSeq(s, Len(digits) + 2, Len(s))
         IN  IF /\ Head(s) = "("
                /\ digits # <<>>
                /\ Len(rest) >= 2
                /\ rest[1] = Available
                /\ rest[2] = ")"
             THEN [found |-> TRUE, group |-> digits]
             ELSE SearchAvailable(Tail(s))

NumAvailableOf(avail_raw) ==
    LET avail_match == SearchAvailable(avail_raw)
    IN  IF avail_match.found THEN int(avail_match.group).val ELSE 0

AvailabilityOf(avail_raw) ==
    IF \E i \in 1..Len(avail_raw) : avail_raw[i] = InStock
    THEN "In stock" ELSE "Out of stock"

\* int(info.get("Number of reviews", 0))
NumReviewsOf(rows) ==
    IF HasKey(rows, "Number of reviews")
    THEN int(InfoGet(rows, "Number of reviews", <<>>))
    ELSE [exc |-> NoExc, val |-> 0]

DescriptionOf(desc) ==
    IF desc.article
    THEN IF desc.div THEN (IF desc.p THEN desc.text ELSE "") ELSE ""
    ELSE ""

Raised(e) == [status |-> "raise", exc |-> e, book |-> DefaultBook]
Absent == [status |-> "None", exc |-> NoExc, book |-> DefaultBook]
Returned(b) == [status |-> "record", exc |-> NoExc, book |-> b]

\* the rows of the table when it is absent: the loop over the rows is not entered
RowsOf(table) == IF table.present THEN table.rows ELSE <<>>

\* parse_book_page(url) when get_page(url) returns soup (ok = FALSE: None); the
\* statements run in the order of the source, the first exception leaves the function
parse_book_page(url, ok, soup) ==
    IF ~ok THEN Absent
    ELSE IF soup.product_main.present /\ ~soup.product_main.h1
    THEN Raised("AttributeError")
    ELSE IF \E i \in 1..Len(RowsOf(soup.table)) :
                ~RowsOf(soup.table)[i].has_th \/ ~RowsOf(soup.table)[i].has_td
    THEN Raised("AttributeError")
    ELSE LET info == RowsOf(soup.table)
             excl == parse_price(InfoGet(info, "Price (excl. tax)", <<"0">>))
             incl == parse_price(InfoGet(info, "Price (incl. tax)", <<"0">>))
             tax == parse_price(InfoGet(info, "Tax", <<"0">>))
             avail_raw == InfoGet(info, "Availability", <<>>)
             reviews == NumReviewsOf(info)
         IN  IF excl.exc # NoExc THEN Raised(excl.exc)
             ELSE IF incl.exc # NoExc THEN Raised(incl.exc)
             ELSE IF tax.exc # NoExc THEN Raised(tax.exc)
             ELSE IF reviews.exc # NoExc THEN Raised(reviews.exc)
             ELSE Returned(
                 [title |-> IF soup.product_main.present THEN soup.product_main.title ELSE "",
                  category |-> CategoryOf(soup.breadcrumb),
                  rating |-> RatingOf(soup.star),
                  price |-> incl.val,
                  price_excl_tax |-> excl.val,
                  price_incl_tax |-> incl.val,
                  tax |-> tax.val,
                  availability |-> AvailabilityOf(avail_raw),
                  num_available |-> NumAvailableOf(avail_raw),
                  num_reviews |-> reviews.val,
                  upc |-> InfoGet(info, "UPC", <<>>),
                  product_type |-> InfoGet(info, "Product Type", <<>>),
                  description |-> DescriptionOf(soup.desc),
                  book_url |-> url])

(***************************************************************************)
(* The detail pages the specifications draw from                           *)
(***************************************************************************)
Present(t) == [present |-> TRUE, h1 |-> TRUE, title |-> t]
ProductMains ==
    { [present |-> FALSE, h1 |-> FALSE, title |-> ""],
      [present |-> TRUE, h1 |-> FALSE, title |-> ""],
      Present("A Light in the Attic") }

CrumbName(i) ==
    CASE i = 1 -> "Home" [] i = 2 -> "Books" [] i = 3 -> "Poetry" [] OTHER -> "A Light in the Attic"

Breadcrumbs ==
    { [present |-> FALSE, crumbs |-> <<>>] } \cup
    { [present |-> TRUE, crumbs |-> [i \in 1..k |-> CrumbName(i)]] : k \in 0..MaxCrumbs }

\* soup.find("p", class_="star-rating") finds a p whose class tokens include "star-rating"
ClassTokens == {"star-rating", "Four", "Two", "big"}
Stars ==
    { [present |-> FALSE, class |-> <<>>] } \cup
    { [present |-> TRUE, class |-> c] :
        c \in {d \in SeqsUpTo(ClassTokens, MaxClassTokens) :
                 \E i \in 1..Len(d) : d[i] = "star-rating"} }

TableKeys == {"UPC", "Product Type", "Price (excl. tax)", "Price (incl. tax)", "Tax",
              "Availability", "Number of reviews"}

TdValues ==
    { <<>>, <<"3">>, <<"-", "3">>, <<"x">>, <<"a", "8", "9", "7">>,
      <<"£", "5", "1", ".", "7", "7">>, <<".">>, <<"£">>,
      <<InStock, " ", "(", "2", "2", Available, ")">>,
      <<"(", "-", "2", Available, ")">> }

Row(k, v) == [has_th |-> TRUE, th |-> k, has_td |-> TRUE, td |-> v]
Rows ==
    {Row(k, v) : k \in TableKeys, v \in TdValues} \cup
    {[has_th |-> FALSE, th |-> "", has_td |-> TRUE, td |-> <<"3">>]} \cup
    {[has_th |-> TRUE, th |-> k, has_td |-> FALSE, td |-> <<>>] : k \in TableKeys}

BaseRows ==
    << Row("UPC", <<"a", "8", "9", "7">>),
       Row("Product Type", <<"x">>),
       Row("Price (excl. tax)", <<"£", "5", "1", ".", "7", "7">>),
       Row("Price (incl. tax)", <<"£", "5", "1", ".", "7", "7">>),
       Row("Tax", <<"£", "0", ".", "0", "0">>),
       Row("Availability", <<InStock, " ", "(", "2", "2", Available, ")">>),
       Row("Number of reviews", <<"0">>) >>

Tables ==
    { [present |-> FALSE, rows |-> <<>>] } \cup
    { [present |-> TRUE, rows |-> extra] : extra \in SeqsUpTo(Rows, MaxExtraRows) } \cup
    { [present |-> TRUE, rows |-> BaseRows \o extra] : extra \in SeqsUpTo(Rows, MaxExtraRows) }

Descs ==
    { [article |-> FALSE, div |-> FALSE, p |-> FALSE, text |-> ""],
      [article |-> TRUE, div |-> FALSE, p |-> FALSE, text |-> ""],
      [article |-> TRUE, div |-> TRUE, p |-> FALSE, text |-> ""],
      [article |-> TRUE, div |-> TRUE, p |-> TRUE, text |-> "It's hard to imagine"] }

GoodPage ==
    [product_main |-> Present("A Light in the Attic"),
     breadcrumb |-> [present |-> TRUE, crumbs |-> [i \in 1..4 |-> CrumbName(i)]],
     star |-> [present |-> TRUE, class |-> <<"star-rating", "Three">>],
     table |-> [present |-> TRUE, rows |-> BaseRows],
     desc |-> [article |-> TRUE, div |-> TRUE, p |-> TRUE, text |-> "It's hard to imagine"]]

\* a page whose product_main block holds no h1
NoHeadingPage ==
    [GoodPage EXCEPT !.product_main = [present |-> TRUE, h1 |-> FALSE, title |-> ""]]

\* the pages of SpecParse: the structural anchors varied together, then the rating
\* marker, then the attribute table
ParsePages ==
    { [GoodPage EXCEPT !.product_main = m, !.breadcrumb = b, !.desc = d] :
        m \in ProductMains, b \in Breadcrumbs, d \in Descs } \cup
    { [GoodPage EXCEPT !.star = s] : s \in Stars } \cup
    { [GoodPage EXCEPT !.table = t] : t \in Tables }

\* the pages a successful detail fetch of the pipeline returns
PipelineDetailPages == {GoodPage, NoHeadingPage}

TestUrl == CATALOGUE_URL \o <<"a">>

PriceAlphabet == {"£", "5", "7", "."}
MaxRawLen == 4        \* characters of a raw price string

(***************************************************************************)
(* The pipeline: main                                                      *)
(***************************************************************************)
IdleFunctions ==
    /\ fpc = "idle"
    /\ page = GoodPage
    /\ fetch_ok = TRUE
    /\ outcome = Absent
    /\ raw = <<>>
    /\ price_out = [exc |-> NoExc, val |-> Zero]

IdlePipeline ==
    /\ pc = "idle"
    /\ num_pages = 0
    /\ page_num = 0
    /\ pages = <<>>
    /\ book_urls = <<>>
    /\ idx = 0
    /\ books_data = <<>>
    /\ events = <<>>
    /\ exc = NoExc

Init ==
    /\ pc = "collect"
    /\ num_pages \in 1..MaxPages
    /\ page_num = 1
    /\ pages = <<>>
    /\ book_urls = <<>>
    /\ idx = 0
    /\ books_data = <<>>
    /\ events = <<>>
    /\ exc = NoExc
    /\ IdleFunctions

funVars == <<fpc, page, fetch_ok, outcome, raw, price_out>>

\* one iteration of the loop of collect_book_urls in which get_page returns None:
\* the continue statement skips the rest of the body, polite_sleep included
ListingFetchFails ==
    /\ pc = "collect"
    /\ page_num <= num_pages
    /\ events' = Append(events, ListingReq(page_num, FALSE))
    /\ pages' = Append(pages, FailedPage)
    /\ page_num' = page_num + 1
    /\ UNCHANGED <<pc, num_pages, book_urls, idx, books_data, exc, funVars>>

\* one iteration in which get_page returns a soup
ListingFetchOk ==
    /\ pc = "collect"
    /\ page_num <= num_pages
    /\ \E soup \in ListingPages :
         LET r == ArticleLoop(soup.articles, book_urls)
             requested == Append(events, ListingReq(page_num, TRUE))
         IN  /\ pages' = Append(pages, soup)
             /\ book_urls' = r.urls
             /\ IF r.exc # NoExc
                THEN /\ pc' = "collect_raised"
                     /\ exc' = r.exc
                     /\ events' = requested
                     /\ UNCHANGED page_num
                ELSE /\ events' = polite_sleep(requested)
                     /\ page_num' = page_num + 1
                     /\ UNCHANGED <<pc, exc>>
    /\ UNCHANGED <<num_pages, idx, books_data, funVars>>

\* collect_book_urls returns; main sets books_data = [] and enters its loop
CollectReturns ==
    /\ pc = "collect"
    /\ page_num > num_pages
    /\ pc' = "parse"
    /\ idx' = 1
    /\ books_data' = <<>>
    /\ UNCHANGED <<num_pages, page_num, pages, book_urls, events, exc, funVars>>

\* one iteration of main's loop: parse_book_page, the append, polite_sleep
DetailStep(ok, soup) ==
    /\ pc = "parse"
    /\ idx <= Len(book_urls)
    /\ LET url == book_urls[idx]
           book == parse_book_page(url, ok, soup)
           requested == Append(events, DetailReq(url, ok))
       IN  IF book.status = "raise"
           THEN /\ pc' = "parse_raised"
                /\ exc' = book.exc
                /\ events' = requested
                /\ UNCHANGED <<idx, books_data>>
           ELSE /\ books_data' = IF book.status = "record"
                                 THEN Append(books_data, book.book) ELSE books_data
                /\ events' = polite_sleep(requested)
                /\ idx' = idx + 1
                /\ UNCHANGED <<pc, exc>>
    /\ UNCHANGED <<num_pages, page_num, pages, book_urls, funVars>>

DetailFetchFails == DetailStep(FALSE, GoodPage)

DetailFetchOk == \E soup \in PipelineDetailPages : DetailStep(TRUE, soup)

\* the loop of main is over: the table is built from books_data and written
MainDone ==
    /\ pc = "parse"
    /\ idx > Len(book_urls)
    /\ pc' = "done"
    /\ UNCHANGED <<num_pages, page_num, pages, book_urls, idx, books_data, events, exc, funVars>>

Next ==
    \/ ListingFetchFails
    \/ ListingFetchOk
    \/ CollectReturns
    \/ DetailFetchFails
    \/ DetailFetchOk
    \/ MainDone

Spec == Init /\ [][Next]_vars

(***************************************************************************)
(* collect_book_urls alone                                                 *)
(***************************************************************************)
NextCollect ==
    \/ ListingFetchFails
    \/ ListingFetchOk
    \/ CollectReturns

SpecCollect == Init /\ [][NextCollect]_vars

(***************************************************************************)
(* parse_book_page alone                                                   *)
(***************************************************************************)
InitParse ==
    /\ IdlePipeline
    /\ fpc = "call"
    /\ page \in ParsePages
    /\ fetch_ok \in BOOLEAN
    /\ outcome = Absent
    /\ raw = <<>>
    /\ price_out = [exc |-> NoExc, val |-> Zero]

ParseBookPage ==
    /\ fpc = "call"
    /\ outcome' = parse_book_page(TestUrl, fetch_ok, page)
    /\ fpc' = "returned"
    /\ UNCHANGED <<pipeVars, page, fetch_ok, raw, price_out>>

NextParse == ParseBookPage

SpecParse == InitParse /\ [][NextParse]_vars

(***************************************************************************)
(* parse_price alone                                                       *)
(***************************************************************************)
InitPrice ==
    /\ IdlePipeline
    /\ fpc = "call"
    /\ page = GoodPage
    /\ fetch_ok = TRUE
    /\ outcome = Absent
    /\ raw \in SeqsUpTo(PriceAlphabet, MaxRawLen)
    /\ price_out = [exc |-> NoExc, val |-> Zero]

ParsePrice ==
    /\ fpc = "call"
    /\ price_out' = parse_price(raw)
    /\ fpc' = "returned"
    /\ UNCHANGED <<pipeVars, page, fetch_ok, outcome, raw>>

NextPrice == ParsePrice

SpecPrice == InitPrice /\ [][NextPrice]_vars

(***************************************************************************)
(* Properties                                                              *)
(***************************************************************************)
ListingReqs == SelectSeq(events, LAMBDA e : e.kind = "listing")
DetailReqs == SelectSeq(events, LAMBDA e : e.kind = "detail")
UrlsOf(reqs) == [i \in 1..Len(reqs) |-> reqs[i].url]
RecordUrls == [i \in 1..Len(books_data) |-> books_data[i].book_url]

\* main has ended, by reaching its end or by an exception leaving its loop
MainEnded == pc \in {"done", "parse_raised"}

\* collect_book_urls has ended, by returning or by an exception
CollectEnded == pc # "collect"

\* C1: when main has ended, the output holds exactly one record per reference
\* whose detail fetch succeeded, in the order of the reference list, each record's
\* book_url being that reference.
C1_OneRecordPerFetchedReference ==
    MainEnded =>
        RecordUrls = UrlsOf(SelectSeq(DetailReqs, LAMBDA e : e.ok))

\* C2: collect_book_urls fetches the listing pages 1..num_pages in increasing
\* order, each exactly once: by the time it has ended it has issued exactly
\* num_pages listing fetches.
C2_ExactlyPageCountFetches ==
    /\ \A i \in 1..Len(ListingReqs) : ListingReqs[i].page = i
    /\ CollectEnded => Len(ListingReqs) = num_pages

\* C3: between every two consecutive outbound requests a polite_sleep occurs,
\* also when the earlier request failed.
C3_SleepBetweenRequests ==
    \A i \in 1..(Len(events) - 1) : ~(IsReq(events[i]) /\ IsReq(events[i + 1]))

\* the article at which the inner loop stopped with an exception
RECURSIVE RaisingArticle(_)
RaisingArticle(as) ==
    IF ArticleLoop(<<Head(as)>>, <<>>).exc # NoExc THEN Head(as)
    ELSE RaisingArticle(Tail(as))

LacksLink(article) == ~article.h3 \/ ~article.a

\* C5: an article that lacks the link substructure (no h3, or an h3 without an
\* anchor) is skipped without raising: no exception of collect_book_urls comes
\* from such an article.
C5_MissingLinkSkipped ==
    pc = "collect_raised" => ~LacksLink(RaisingArticle(pages[Len(pages)].articles))

\* the reference an href stands for: the relative-path prefixes stripped, the
\* rest joined to the catalogue root
RECURSIVE StripUpPrefix(_)
StripUpPrefix(h) ==
    IF Len(h) >= Len(UpDir) /\ SubSeq(h, 1, Len(UpDir)) = UpDir
    THEN StripUpPrefix(SubSeq(h, Len(UpDir) + 1, Len(h)))
    ELSE h

PageRefs(p) ==
    LET linked == SelectSeq(p.articles, LAMBDA a : a.h3 /\ a.a /\ a.has_href)
    IN  [i \in 1..Len(linked) |-> CATALOGUE_URL \o StripUpPrefix(linked[i].href)]

\* C6: the list collect_book_urls returns is the concatenation, in page order
\* 1..num_pages, of the reference lists of the pages (each in document order, a
\* failed page giving none), nothing removed and nothing reordered.
C6_ResultIsConcatenation ==
    pc = "parse" =>
        /\ Len(pages) = num_pages
        /\ book_urls = Concat([i \in 1..Len(pages) |-> PageRefs(pages[i])])

\* a returned list that holds one reference twice from page 1 and once more from page 2
C6_Witness ==
    /\ pc = "parse"
    /\ Len(pages) = 2
    /\ Len(PageRefs(pages[1])) = 2
    /\ PageRefs(pages[1])[1] = PageRefs(pages[1])[2]
    /\ Len(PageRefs(pages[2])) = 2
    /\ PageRefs(pages[2])[1] # PageRefs(pages[1])[1]
    /\ PageRefs(pages[2])[2] = PageRefs(pages[1])[1]
    /\ Len(book_urls) = 4

\* C7: no detail fetch precedes a listing fetch; the detail fetches follow the
\* reference list in order, and when main has ended there is exactly one per
\* element of the list; a record is appended only for a non-absent result.
C7_StagesInOrder ==
    /\ \A i, j \in 1..Len(events) :
         i < j => ~(events[i].kind = "detail" /\ events[j].kind = "listing")
    /\ Len(DetailReqs) <= Len(book_urls)
    /\ UrlsOf(DetailReqs) = SubSeq(book_urls, 1, Len(DetailReqs))
    /\ Len(books_data) <= Len(SelectSeq(DetailReqs, LAMBDA e : e.ok))
    /\ MainEnded => UrlsOf(DetailReqs) = book_urls

\* C4: parse_book_page never raises on a fetched page, whatever inner structure
\* is missing or malformed; it returns None exactly when the fetch fails.
C4_NeverRaises ==
    fpc = "returned" =>
        /\ outcome.status # "raise"
        /\ (outcome.status = "None") <=> ~fetch_ok

\* C8: in every record parse_book_page returns, num_available >= 0 and
\* num_reviews >= 0.
C8_CountsNonNegative ==
    (fpc = "returned" /\ outcome.status = "record") =>
        /\ outcome.book.num_available >= 0
        /\ outcome.book.num_reviews >= 0

\* raw is a currency symbol, digits, a point, digits, the point at position k
CurrencyForm(r, k) ==
    /\ Len(r) >= 4
    /\ r[1] = "£"
    /\ k \in 3..(Len(r) - 1)
    /\ r[k] = "."
    /\ \A i \in 2..Len(r) : i # k => IsDigit(r[i])

HasDigit(r) == \E i \in 1..Len(r) : IsDigit(r[i])

\* C9: a raw price of the form <currency-symbol><digits>.<digits> parses to the
\* number digits.digits, and a raw price with no digit parses to 0.0.
C9_PriceParsing ==
    fpc = "returned" =>
        /\ \A k \in 1..Len(raw) :
             CurrencyForm(raw, k) =>
                 /\ price_out.exc = NoExc
                 /\ DecEq(price_out.val,
                          Dec(DecVal(SubSeq(raw, 2, k - 1)) * Pow10(Len(raw) - k)
                                + DecVal(SubSeq(raw, k + 1, Len(raw))),
                              Pow10(Len(raw) - k)))
        /\ ~HasDigit(raw) => (price_out.exc = NoExc /\ DecEq(price_out.val, Zero))

Vocabulary == <<"One", "Two", "Three", "Four", "Five">>
InVocabulary(t) == \E n \in 1..Len(Vocabulary) : Vocabulary[n] = t
Ordinal(t) == CHOOSE n \in 1..Len(Vocabulary) : Vocabulary[n] = t

\* C10 as stated: the rating is in 0..5; a marker that carries a token of the
\* vocabulary, whatever else it carries, gives the ordinal of such a token; the
\* rating is 0 only when the marker is absent or carries no token of the vocabulary.
C10_RatingOfAnyVocabularyToken ==
    (fpc = "returned" /\ outcome.status = "record") =>
        LET r == outcome.book.rating
            c == page.star.class
            carried == {i \in 1..Len(c) : InVocabulary(c[i])}
        IN  /\ r \in 0..5
            /\ (page.star.present /\ carried # {}) =>
                   \E i \in carried : r = Ordinal(c[i])
            /\ r = 0 => (~page.star.present \/ carried = {})

\* c[i] is the first class token other than "star-rating"
FirstOther(c, i) == c[i] # "star-rating" /\ \A j \in 1..(i - 1) : c[j] = "star-rating"

\* C10 amended: the rating is in 0..5; when the first class token other than
\* "star-rating" is of the vocabulary the rating is its ordinal, whatever tokens
\* follow; the rating is 0 only when the marker is absent, carries no token other
\* than "star-rating", or its first such token is not of the vocabulary.
C10_RatingOfFirstToken ==
    (fpc = "returned" /\ outcome.status = "record") =>
        LET r == outcome.book.rating
            c == page.star.class
        IN  /\ r \in 0..5
            /\ page.star.present =>
                   \A i \in 1..Len(c) :
                       (FirstOther(c, i) /\ InVocabulary(c[i])) => r = Ordinal(c[i])
            /\ r = 0 =>
                   \/ ~page.star.present
                   \/ \A i \in 1..Len(c) : c[i] = "star-rating"
                   \/ \E i \in 1..Len(c) : FirstOther(c, i) /\ ~InVocabulary(c[i])

\* a record whose marker carries "Four" first and two more tokens after it, one of
\* them of the vocabulary
C10_Witness ==
    /\ fpc = "returned"
    /\ outcome.status = "record"
    /\ page.star.present
    /\ page.star.class = <<"Four", "star-rating", "Two">>
    /\ outcome.book.rating = 4

====
